---- MODULE Spec2Model ----
(***************************************************************************)
(* Cython/Coverage.py: the coverage.py plugin that maps the lines of a     *)
(* Cython-generated C file back to .pyx/.pxi/.pxd source lines.            *)
(*                                                                         *)
(* Strings (paths, lines of the C file, code text) are sequences of        *)
(* one-character strings, so that the regular expressions, os.path         *)
(* functions, rstrip() and int() are computed character by character.      *)
(* The module is Python 2 code (iteritems, viewkeys); a set of file names   *)
(* is iterated in an order fixed for the process (hash_order).             *)
(***************************************************************************)
EXTENDS Integers, Sequences, FiniteSets, TLC

VARIABLES fs, hash_order, c_files_map, map_created, tracers, last, replaced,
          thr

vars ==
    <<fs, hash_order, c_files_map, map_created, tracers, last, replaced, thr>>

(***************************************************************************)
(* Bounds of the model                                                     *)
(***************************************************************************)
\* longest C file (in lines) drawn for the scanner specification
MaxLines == 4

(***************************************************************************)
(* Characters and small string helpers                                     *)
(***************************************************************************)
NL == "\n"
Digits == {"0", "1", "2", "3", "4", "5", "6", "7", "8", "9"}
Whitespace == {" ", "\t", NL, "\r"}

DigitVal(c) ==
    CASE c = "0" -> 0 [] c = "1" -> 1 [] c = "2" -> 2 [] c = "3" -> 3
      [] c = "4" -> 4 [] c = "5" -> 5 [] c = "6" -> 6 [] c = "7" -> 7
      [] c = "8" -> 8 [] c = "9" -> 9

\* int(lineno) on a non-empty run of decimal digits
RECURSIVE ToInt(_)
ToInt(ds) ==
    IF ds = <<>> THEN 0
    ELSE 10 * ToInt(SubSeq(ds, 1, Len(ds) - 1)) + DigitVal(ds[Len(ds)])

LowerChar(c) ==
    CASE c = "A" -> "a" [] c = "C" -> "c" [] c = "K" -> "k" [] c = "M" -> "m"
      [] c = "P" -> "p" [] c = "X" -> "x" [] c = "Y" -> "y" [] c = "S" -> "s"
      [] c = "O" -> "o" [] c = "D" -> "d" [] c = "L" -> "l" [] c = "I" -> "i"
      [] c = "G" -> "g"
      [] OTHER -> c

\* str.lower()
Lower(s) == [i \in 1..Len(s) |-> LowerChar(s[i])]

\* str.endswith(suffix)
EndsWith(s, suffix) ==
    /\ Len(s) >= Len(suffix)
    /\ SubSeq(s, Len(s) - Len(suffix) + 1, Len(s)) = suffix

\* str.rstrip(): drop the trailing whitespace
RECURSIVE RStrip(_)
RStrip(s) ==
    IF s # <<>> /\ s[Len(s)] \in Whitespace
    THEN RStrip(SubSeq(s, 1, Len(s) - 1))
    ELSE s

\* index of the last occurrence of character c in s, 0 if there is none
LastIndexOf(s, c) ==
    LET hits == {i \in 1..Len(s) : s[i] = c}
    IN  IF hits = {} THEN 0 ELSE CHOOSE i \in hits : \A j \in hits : j <= i

\* first index >= i of s that does not hold a space (Len(s)+1 if none)
SkipSpaces(s, i) ==
    LET stops == {j \in i..Len(s) : s[j] # " "}
    IN  IF stops = {} THEN Len(s) + 1
        ELSE CHOOSE j \in stops : \A k \in stops : j <= k

At(s, i) == IF i \in 1..Len(s) THEN s[i] ELSE ""

(***************************************************************************)
(* os.path                                                                 *)
(***************************************************************************)
\* the working directory of the process
Cwd == <<"/", "w">>

\* os.path.abspath: join with the working directory unless already absolute
\* (the paths of this model hold no ".", ".." or doubled separators, on
\* which normpath is the identity)
abspath(p) == IF At(p, 1) = "/" THEN p ELSE Cwd \o <<"/">> \o p

\* os.path.splitext: split at the last dot of the last path component,
\* leading dots of the component not counting
splitext(p) ==
    LET sep == LastIndexOf(p, "/")
        dot == LastIndexOf(p, ".")
        lead == {i \in (sep + 1)..(dot - 1) : p[i] # "."}
    IN  IF dot > sep /\ lead # {}
        THEN <<SubSeq(p, 1, dot - 1), SubSeq(p, dot, Len(p))>>
        ELSE <<p, <<>> >>

(***************************************************************************)
(* The three regular expressions of _parse_lines                           *)
(***************************************************************************)
\* '$' matches at the end of the string or just before a final newline
Chomp(line) ==
    IF line # <<>> /\ line[Len(line)] = NL
    THEN SubSeq(line, 1, Len(line) - 1) ELSE line

NoMatch == [ok |-> FALSE, filename |-> <<>>, lineno |-> <<>>, text |-> <<>>]

\* re.compile(r' */[*] +"(.*)":([0-9]+)$').match
match_source_path_line(line) ==
    LET s  == Chomp(line)
        i0 == SkipSpaces(s, 1)
        i1 == SkipSpaces(s, i0 + 2)
        \* positions of a closing '":' followed by digits up to the end
        ks == {k \in (i1 + 1)..(Len(s) - 2) :
                  /\ s[k] = "\"" /\ s[k + 1] = ":"
                  /\ \A d \in (k + 2)..Len(s) : s[d] \in Digits}
        k  == CHOOSE x \in ks : \A y \in ks : y <= x
    IN  IF /\ At(s, i0) = "/" /\ At(s, i0 + 1) = "*"
           /\ i1 > i0 + 2 /\ At(s, i1) = "\""
           /\ NL \notin {s[i] : i \in 1..Len(s)}
           /\ ks # {}
        THEN [ok |-> TRUE, filename |-> SubSeq(s, i1 + 1, k - 1),
              lineno |-> SubSeq(s, k + 2, Len(s)), text |-> <<>>]
        ELSE NoMatch

\* length of the run of '<' that ends the string
RECURSIVE TrailingLt(_)
TrailingLt(s) ==
    IF s # <<>> /\ s[Len(s)] = "<"
    THEN 1 + TrailingLt(SubSeq(s, 1, Len(s) - 1)) ELSE 0

\* re.compile(r' *[*] (.*) # <<<<<<+$').match
match_current_code_line(line) ==
    LET s  == Chomp(line)
        i0 == SkipSpaces(s, 1)
        m  == TrailingLt(s)
        e  == Len(s) - m          \* last character before the run of '<'
    IN  IF /\ At(s, i0) = "*" /\ At(s, i0 + 1) = " "
           /\ m >= 6
           /\ e - 2 >= i0 + 2
           /\ At(s, e - 2) = " " /\ At(s, e - 1) = "#" /\ At(s, e) = " "
           /\ NL \notin {s[i] : i \in 1..Len(s)}
        THEN [ok |-> TRUE, filename |-> <<>>, lineno |-> <<>>,
              text |-> SubSeq(s, i0 + 2, e - 3)]
        ELSE NoMatch

\* re.compile(r' *[*]/$').match
match_comment_end(line) ==
    LET s  == Chomp(line)
        i0 == SkipSpaces(s, 1)
    IN  At(s, i0) = "*" /\ At(s, i0 + 1) = "/" /\ i0 + 1 = Len(s)

(***************************************************************************)
(* The scan of _parse_lines: one forward pass over the lines of the C      *)
(* file, shared by the outer loop (looking for a path header) and the      *)
(* inner loop (looking for the marked code line or the comment end).       *)
(***************************************************************************)
\* code_lines = defaultdict(dict), max_line = defaultdict(int),
\* filenames = set(): functions whose domain is the set of keys present
EmptyScan ==
    [code_lines |-> <<>>, max_line |-> <<>>, filenames |-> {}, taken |-> <<>>]

\* next(lines): line i leaves the iterator, handed to the outer or to the
\* inner loop
Take(st, loop, i) == [st EXCEPT !.taken = Append(@, <<loop, i>>)]

Max(a, b) == IF a >= b THEN a ELSE b

\* d[k] = v on a dict modelled as a function
DictSet(d, k, v) == [x \in DOMAIN d \cup {k} |-> IF x = k THEN v ELSE d[x]]

\* defaultdict lookup
DictGet(d, k, default) == IF k \in DOMAIN d THEN d[k] ELSE default

\* variant: max_line[filename] = lineno, the running maximum dropped
RecordHeader_lastline(st, filename, lineno) ==
    [st EXCEPT !.filenames = @ \cup {filename},
               !.max_line = DictSet(@, filename, lineno)]

\* lines 108-111: a path header was matched by the outer loop
RecordHeader(st, filename, lineno) ==
    [st EXCEPT !.filenames = @ \cup {filename},
               !.max_line = DictSet(@, filename,
                                    Max(DictGet(@, filename, 0), lineno))]

\* variant: match.group(1) stored without rstrip()
RecordCode_norstrip(st, filename, lineno, text) ==
    [st EXCEPT !.code_lines =
        DictSet(@, filename,
                DictSet(DictGet(@, filename, <<>>), lineno, text))]

\* line 115: code_lines[filename][lineno] = match.group(1).rstrip()
RecordCode(st, filename, lineno, text) ==
    [st EXCEPT !.code_lines =
        DictSet(@, filename,
                DictSet(DictGet(@, filename, <<>>), lineno, RStrip(text)))]

RECURSIVE ScanOuter(_, _, _), ScanInner(_, _, _, _, _)
\* for line in lines: (lines 104-111)
ScanOuter(lines, i, st) ==
    IF i > Len(lines) THEN st
    ELSE LET m  == match_source_path_line(lines[i])
             s1 == Take(st, "outer", i)
         IN  IF ~m.ok THEN ScanOuter(lines, i + 1, s1)
             ELSE ScanInner(lines, i + 1, m.filename, ToInt(m.lineno),
                            RecordHeader(s1, m.filename, ToInt(m.lineno)))

\* variant: the inner loop tests each line for a path header first and
\* starts the block of that header
ScanInner_headers(lines, j, filename, lineno, st) ==
    IF j > Len(lines) THEN st
    ELSE LET h  == match_source_path_line(lines[j])
             m  == match_current_code_line(lines[j])
             s1 == Take(st, "inner", j)
         IN  IF h.ok
             THEN ScanInner(lines, j + 1, h.filename, ToInt(h.lineno),
                            RecordHeader(s1, h.filename, ToInt(h.lineno)))
             ELSE IF m.ok
             THEN ScanOuter(lines, j + 1,
                            RecordCode(s1, filename, lineno, m.text))
             ELSE IF match_comment_end(lines[j])
                  THEN ScanOuter(lines, j + 1, s1)
                  ELSE ScanInner(lines, j + 1, filename, lineno, s1)

\* for comment_line in lines: (lines 112-119), on the same iterator
ScanInner(lines, j, filename, lineno, st) ==
    IF j > Len(lines) THEN st
    ELSE LET m  == match_current_code_line(lines[j])
             s1 == Take(st, "inner", j)
         IN  IF m.ok
             THEN ScanOuter(lines, j + 1,
                            RecordCode(s1, filename, lineno, m.text))
             ELSE IF match_comment_end(lines[j])
                  THEN ScanOuter(lines, j + 1, s1)
                  ELSE ScanInner(lines, j + 1, filename, lineno, s1)

Scan(lines) == ScanOuter(lines, 1, EmptyScan)

\* lines 121-124: one set per file that has a code line
excluded_lines(st) ==
    [f \in DOMAIN st.code_lines |->
        (1..st.max_line[f]) \ DOMAIN st.code_lines[f]]

(***************************************************************************)
(* The registry _c_files_map                                               *)
(***************************************************************************)
\* an optional value: None is the empty set, a value v is {v}
None == {}
Some(v) == {v}
Val(o) == CHOOSE v \in o : TRUE

\* an absent path (c_file = py_file = None)
NoPath == <<>>

\* variant: the path stored in its absolute form
Entry_abspath(c_file, path, code, excluded) ==
    [c_file |-> c_file, path |-> abspath(path), code |-> code,
     excluded |-> excluded]

\* the tuple (c_file, path as cited or reported, code, excluded)
Entry(c_file, path, code, excluded) ==
    [c_file |-> c_file, path |-> path, code |-> code, excluded |-> excluded]

IsFull(e) == e.code # None

\* iteration over a set of file names follows the hash order of the process
SetIter(S) == SelectSeq(hash_order, LAMBDA f : f \in S)

\* lines 129-131: for filename in filenames: self._c_files_map[...] = (...)
\* excluded_lines[filename] raises KeyError for a file without a code line
RECURSIVE CommitFrom(_, _, _, _, _)
CommitFrom(map, order, i, c_file, st) ==
    IF i > Len(order) THEN [map |-> map, raised |-> FALSE]
    ELSE LET filename == order[i]
         IN  IF filename \notin DOMAIN excluded_lines(st)
             THEN [map |-> map, raised |-> TRUE]
             ELSE CommitFrom(
                    DictSet(map, abspath(filename),
                            Entry(c_file, filename,
                                  Some(DictGet(st.code_lines, filename, <<>>)),
                                  Some(excluded_lines(st)[filename]))),
                    order, i + 1, c_file, st)

\* variant: a key that already holds a full entry gets the new code text
\* appended to the text it holds instead of replaced by it
Commit_append(map, c_file, st) ==
    LET r == CommitFrom(map, SetIter(st.filenames), 1, c_file, st)
        written == {abspath(f) : f \in st.filenames} \cap DOMAIN r.map
        Merge(old, new) ==
            [n \in DOMAIN new |->
                IF n \in DOMAIN old THEN old[n] \o new[n] ELSE new[n]]
    IN  [r EXCEPT !.map =
            [k \in DOMAIN r.map |->
                IF k \in written /\ k \in DOMAIN map /\ IsFull(map[k])
                   /\ IsFull(r.map[k])
                THEN [r.map[k] EXCEPT
                        !.code = Some(Merge(Val(map[k].code), Val(@)))]
                ELSE r.map[k]]]

\* variant: a key already in the registry keeps the entry it has
\* (setdefault for the assignment of line 130)
Commit_keep(map, c_file, st) ==
    LET r == CommitFrom(map, SetIter(st.filenames), 1, c_file, st)
    IN  [r EXCEPT !.map =
            [k \in DOMAIN r.map |->
                IF k \in DOMAIN map THEN map[k] ELSE r.map[k]]]

Commit(map, c_file, st) ==
    CommitFrom(map, SetIter(st.filenames), 1, c_file, st)

(***************************************************************************)
(* The file system                                                         *)
(***************************************************************************)
\* b'/* Generated by Cython '
Marker ==
  <<"/", "*", " ", "G", "e", "n", "e", "r", "a", "t", "e", "d", " ", "b",
        "y", " ", "C", "y", "t", "h", "o", "n", " ">>

HeadBytes == 30

RECURSIVE Concat(_)
Concat(lines) ==
    IF lines = <<>> THEN <<>> ELSE Head(lines) \o Concat(Tail(lines))

\* f.read(30)
ReadHead(lines, n) ==
    LET all == Concat(lines)
    IN  SubSeq(all, 1, IF Len(all) < n THEN Len(all) ELSE n)

\* pattern in data
Contains(data, pat) ==
    \E i \in 1..(Len(data) - Len(pat) + 1) :
        SubSeq(data, i, i + Len(pat) - 1) = pat

\* os.path.exists
exists(p) == p \in DOMAIN fs /\ fs[p].exists

\* open(p) succeeds
CanOpen(p) == exists(p) /\ fs[p].readable

\* variant: the extension test of line 71 dropped
find_source_files_anyext(filename) ==
    LET basename == splitext(filename)[1]
        dot_c    == basename \o <<".", "c">>
        dot_cpp  == basename \o <<".", "c", "p", "p">>
        c_file   == IF exists(dot_c) THEN dot_c
                    ELSE IF exists(dot_cpp) THEN dot_cpp ELSE NoPath
        py       == splitext(c_file)[1] \o <<".", "p", "y">>
    IN  [c_file  |-> c_file,
         py_file |-> IF c_file # NoPath /\ exists(py) THEN py ELSE NoPath,
         probes  |-> {dot_c}
                     \cup (IF exists(dot_c) THEN {} ELSE {dot_cpp})
                     \cup (IF c_file # NoPath THEN {py} ELSE {})]

\* variant: the .cpp file looked for before the .c file
find_source_files_cppfirst(filename) ==
    LET basename == splitext(filename)[1]
        ext      == splitext(filename)[2]
        dot_c    == basename \o <<".", "c">>
        dot_cpp  == basename \o <<".", "c", "p", "p">>
        c_file   == IF exists(dot_cpp) THEN dot_cpp
                    ELSE IF exists(dot_c) THEN dot_c ELSE NoPath
        py       == splitext(c_file)[1] \o <<".", "p", "y">>
    IN  IF Lower(ext) \notin {<<".", "s", "o">>, <<".", "d", "l", "l">>,
                              <<".", "c">>, <<".", "c", "p", "p">>}
        THEN [c_file |-> NoPath, py_file |-> NoPath, probes |-> {}]
        ELSE [c_file  |-> c_file,
              py_file |-> IF c_file # NoPath /\ exists(py) THEN py ELSE NoPath,
              probes  |-> {dot_cpp}
                          \cup (IF exists(dot_cpp) THEN {} ELSE {dot_c})
                          \cup (IF c_file # NoPath THEN {py} ELSE {})]

\* lines 69-87
find_source_files(filename) ==
    LET basename == splitext(filename)[1]
        ext      == splitext(filename)[2]
        dot_c    == basename \o <<".", "c">>
        dot_cpp  == basename \o <<".", "c", "p", "p">>
        c_file   == IF exists(dot_c) THEN dot_c
                    ELSE IF exists(dot_cpp) THEN dot_cpp ELSE NoPath
        py       == splitext(c_file)[1] \o <<".", "p", "y">>
    IN  IF Lower(ext) \notin {<<".", "s", "o">>, <<".", "d", "l", "l">>,
                              <<".", "c">>, <<".", "c", "p", "p">>}
        THEN [c_file |-> NoPath, py_file |-> NoPath, probes |-> {}]
        ELSE [c_file  |-> c_file,
              py_file |-> IF c_file # NoPath /\ exists(py) THEN py ELSE NoPath,
              probes  |-> {dot_c}
                          \cup (IF exists(dot_c) THEN {} ELSE {dot_cpp})
                          \cup (IF c_file # NoPath THEN {py} ELSE {})]

(***************************************************************************)
(* Concrete strings of the model                                           *)
(***************************************************************************)
\* paths handed to the plugin by coverage.py
p_m_SO_rel ==
    <<"m", ".", "S", "O">>
p_m_c ==
    <<"/", "w", "/", "m", ".", "c">>
p_m_cpp ==
    <<"/", "w", "/", "m", ".", "c", "p", "p">>
p_m_py ==
    <<"/", "w", "/", "m", ".", "p", "y">>
p_k_py ==
    <<"k", ".", "p", "y">>
p_n_c ==
    <<"/", "w", "/", "n", ".", "c">>
p_x_txt ==
    <<"x", ".", "t", "x", "t">>
p_a_pyx ==
    <<"a", ".", "p", "y", "x">>
p_a_pyx_abs ==
    <<"/", "w", "/", "a", ".", "p", "y", "x">>
p_a_PYX ==
    <<"/", "w", "/", "a", ".", "P", "Y", "X">>
p_b_pxi ==
    <<"b", ".", "p", "x", "i">>
\* lines of a generated C file
Banner ==
    <<"/", "*", " ", "G", "e", "n", "e", "r", "a", "t", "e", "d", " ", "b",
      "y", " ", "C", "y", "t", "h", "o", "n", " ", "0", ".", "2", "3", " ",
      "*", "/", NL>>
LateBanner ==
    <<" ", " ", " ", " ", " ", " ", " ", " ", "/", "*", " ", "G", "e", "n",
      "e", "r", "a", "t", "e", "d", " ", "b", "y", " ", "C", "y", "t", "h",
      "o", "n", " ", "0", ".", "2", "3", " ", "*", "/", NL>>
PlainLine ==
    <<"i", "n", "t", " ", "x", ";", NL>>
H_a1 ==
    <<"/", "*", " ", "\"", "a", ".", "p", "y", "x", "\"", ":", "1", NL>>
H_a3 ==
    <<" ", " ", "/", "*", " ", "\"", "a", ".", "p", "y", "x", "\"", ":",
      "3", NL>>
H_a0 ==
    <<"/", "*", " ", "\"", "a", ".", "p", "y", "x", "\"", ":", "0", NL>>
H_b12 ==
    <<"/", "*", " ", " ", "\"", "b", ".", "p", "x", "i", "\"", ":", "1",
      "2", NL>>
H_abs_a2 ==
    <<"/", "*", " ", "\"", "/", "w", "/", "a", ".", "p", "y", "x", "\"",
      ":", "2", NL>>
C_x ==
    <<" ", "*", " ", "x", " ", "=", " ", "1", " ", "#", " ", "<", "<", "<",
      "<", "<", "<", "<", "<", NL>>
C_y ==
    <<" ", "*", " ", "y", " ", " ", " ", "#", " ", "<", "<", "<", "<", "<",
      "<", NL>>
C_short ==
    <<" ", "*", " ", "z", " ", "#", " ", "<", "<", "<", "<", "<", NL>>
E_end ==
    <<" ", "*", "/", NL>>
\* code text as the scan stores it
t_x ==
    <<"x", " ", "=", " ", "1">>
t_y ==
    <<"y">>

(***************************************************************************)
(* State                                                                   *)
(*   fs           the files on disk: path -> [exists, readable, lines]     *)
(*   hash_order   the order in which this process iterates a set of names  *)
(*   c_files_map  Plugin._c_files_map, shared with every tracer            *)
(*   map_created  FALSE while Plugin._c_files_map is None                  *)
(*   tracers      the CythonModuleTracer objects handed to coverage.py     *)
(*   last         the last call made by coverage.py and what it did        *)
(*   replaced     the keys whose placeholder the last call replaced by a   *)
(*                full entry                                               *)
(*   thr          for each thread, the call it is in and the position it   *)
(*                has reached in it                                        *)
(***************************************************************************)
File(ex, rd, lines) == [exists |-> ex, readable |-> rd, lines |-> lines]
Missing == File(FALSE, FALSE, <<>>)

\* file names the C files of the model cite
CitedNames == {p_a_pyx, p_b_pxi, p_a_pyx_abs}

\* all orders of a set of names, as sequences without repetition
Orders(S) ==
    {o \in [1..Cardinality(S) -> S] : \A i, j \in DOMAIN o : i # j => o[i] # o[j]}

\* the orders that differ on names some C file of the model cites together
\* ("/w/a.pyx" is only ever cited alone)
HashOrders == {o \in Orders(CitedNames) : o[3] = p_a_pyx_abs}

\* contents the C file of module m may have
MenuM ==
    { <<Banner, H_a1, C_x, H_a3, E_end>>,
      <<Banner, H_a1, C_x, H_b12, E_end>>,
      <<Banner, H_a1, C_x, H_b12, C_y>>,
      <<LateBanner, H_a1, C_x>>,
      <<PlainLine, H_a1, C_x>> }

\* the lines a C file is built from in the scanner specification
Vocabulary == {H_a1, H_a3, H_a0, H_b12, C_x, C_y, C_short, E_end}

RECURSIVE Texts(_)
\* every sequence of at most n lines of the vocabulary
Texts(n) ==
    IF n = 0 THEN {<<>>}
    ELSE LET shorter == Texts(n - 1)
         IN  shorter \cup {Append(t, l) : t \in shorter, l \in Vocabulary}

\* longer files: blocks of two files interleaved, a repeated header
LongTexts ==
    { <<H_a1, C_x, H_b12, E_end, H_a1, C_y>>,
      <<H_a3, C_x, H_b12, C_y, H_a1, E_end, H_a3, C_y>>,
      <<H_b12, C_short, C_x, H_a1, C_y, H_b12, C_y>> }

Tracer(module_file, py_file, c_file) ==
    [py_file |-> py_file, c_file |-> c_file]

Reporter(c_file, source_file, rel_file_path, code, excluded) ==
    [c_file |-> c_file, filename |-> source_file, name |-> rel_file_path,
     code |-> code, excluded |-> excluded]

\* CythonModuleReporter.statements: self._code.viewkeys()
statements(r) == DOMAIN r.code

\* CythonModuleReporter.excluded_statements: self._excluded
excluded_statements(r) == r.excluded

\* what a call returned: None, a tracer, a reporter, a path, or KeyError
Ret(kind, path, obj) == [kind |-> kind, path |-> path, obj |-> obj]
RetNone == Ret("None", NoPath, None)

\* again: this is a file_tracer call that follows a file_tracer call on the
\* same absolute path
Call(op, arg, self, ret, scanned, scan, c_file, probes, reads) ==
    [op |-> op, arg |-> arg, self |-> self, ret |-> ret, scanned |-> scanned,
     scan |-> scan, c_file |-> c_file, probes |-> probes, reads |-> reads,
     again |-> /\ op = "file_tracer" /\ last.op = op
               /\ abspath(last.arg) = abspath(arg)]

NoCall ==
    [op |-> "none", arg |-> NoPath, self |-> None, ret |-> RetNone,
     scanned |-> FALSE, scan |-> EmptyScan, c_file |-> NoPath, probes |-> {},
     reads |-> {}, again |-> FALSE]

TypeOK ==
    /\ map_created \in BOOLEAN
    /\ \A k \in DOMAIN c_files_map :
          /\ c_files_map[k].c_file # NoPath
          /\ (c_files_map[k].code = None) = (c_files_map[k].excluded = None)
    /\ \A t \in tracers : t.c_file # NoPath
    /\ last.op \in {"none", "file_tracer", "file_reporter",
                    "dynamic_source_filename"}

\* the threads that call into the plugin at the same time
Threads == {1, 2}

\* a thread outside any call
Idle ==
    [pc |-> "idle", self |-> None, arg |-> NoPath, c_file |-> NoPath,
     py_file |-> NoPath, scan |-> EmptyScan, i |-> 0]

InitProcess ==
    /\ thr = [t \in Threads |-> Idle]
    /\ c_files_map = <<>>
    /\ map_created = FALSE
    /\ tracers = {}
    /\ last = NoCall
    /\ replaced = {}

\* a C file that cites one file under two names
TwoNames == <<Banner, H_abs_a2, C_y, H_a1, C_x>>

\* the orders that differ on the two names of that file
TwoNamesOrders == {o \in Orders(CitedNames) : o[1] = p_b_pxi}

\* module m with any of its C files, an optional m.cpp, m.py and module n,
\* or module m and a module n that cites one file under two names
Init ==
    /\ \/ /\ \E mc \in {Missing} \cup {File(TRUE, TRUE, t) : t \in MenuM}
                         \cup {File(TRUE, FALSE, <<Banner, H_a1, C_x>>)},
                  mcpp \in {Missing, File(TRUE, TRUE, <<Banner, H_b12, C_x>>)},
                  mpy \in {Missing, File(TRUE, TRUE, <<>>)},
                  nc \in {Missing, File(TRUE, TRUE, <<Banner, H_abs_a2, C_y>>)} :
                  fs = [q \in {p_m_c, p_m_cpp, p_m_py, p_n_c} |->
                           CASE q = p_m_c -> mc [] q = p_m_cpp -> mcpp
                             [] q = p_m_py -> mpy [] q = p_n_c -> nc]
          /\ hash_order \in HashOrders
       \/ /\ \E mc \in {Missing,
                         File(TRUE, TRUE, <<Banner, H_a1, C_x, H_a3, E_end>>)} :
                  fs = [q \in {p_m_c, p_m_cpp, p_m_py, p_n_c} |->
                           CASE q = p_m_c -> mc [] q = p_m_cpp -> Missing
                             [] q = p_m_py -> Missing
                             [] q = p_n_c -> File(TRUE, TRUE, TwoNames)]
          /\ hash_order \in TwoNamesOrders
    /\ InitProcess

(***************************************************************************)
(* Plugin.file_tracer (lines 27-55), with _find_source_files and           *)
(* _parse_lines                                                            *)
(***************************************************************************)
\* variant: the registry not consulted
KnownCFile_never(filename) == NoPath

\* lines 33-34: the C file the registry names for the path, if any
KnownCFile(filename) ==
    IF DOMAIN c_files_map # {} /\ filename \in DOMAIN c_files_map
    THEN c_files_map[filename].c_file ELSE NoPath

\* variant: the marker looked for in the whole file, f.read() for f.read(30)
IsCythonFile_whole(c_file) ==
    CanOpen(c_file) /\ Contains(Concat(fs[c_file].lines), Marker)

\* lines 41-46: the file opens and its first 30 bytes hold the marker
IsCythonFile(c_file) ==
    CanOpen(c_file) /\ Contains(ReadHead(fs[c_file].lines, HeadBytes), Marker)

file_tracer(arg) ==
    LET filename == abspath(arg)
        known    == KnownCFile(filename)
        found    == IF known = NoPath THEN find_source_files(filename)
                    ELSE [c_file |-> known, py_file |-> NoPath, probes |-> {}]
        c_file   == found.c_file
        py_file  == found.py_file
        st       == Scan(fs[c_file].lines)
        done     == Commit(c_files_map, c_file, st)
        t        == Tracer(filename, py_file, c_file)
    IN  IF c_file = NoPath
        THEN /\ last' = Call("file_tracer", arg, None, RetNone, FALSE,
                             EmptyScan, NoPath, found.probes, {})
             /\ UNCHANGED <<c_files_map, map_created, tracers>>
        ELSE IF ~IsCythonFile(c_file)
        THEN /\ last' = Call("file_tracer", arg, None, RetNone, FALSE,
                             EmptyScan, c_file, found.probes,
                             IF CanOpen(c_file) THEN {c_file} ELSE {})
             /\ UNCHANGED <<c_files_map, map_created, tracers>>
        ELSE /\ c_files_map' = done.map
             /\ map_created' = TRUE
             /\ tracers' = IF done.raised THEN tracers ELSE tracers \cup {t}
             /\ last' = Call("file_tracer", arg, None,
                             IF done.raised
                             THEN Ret("KeyError", NoPath, None)
                             ELSE Ret("tracer", NoPath, Some(t)),
                             TRUE, st, c_file, found.probes, {c_file})

FileTracer(arg) ==
    /\ file_tracer(arg)
    /\ replaced' = {k \in DOMAIN c_files_map :
                       ~IsFull(c_files_map[k]) /\ IsFull(c_files_map'[k])}
    /\ UNCHANGED <<fs, hash_order, thr>>

(***************************************************************************)
(* Plugin.file_reporter (lines 57-67)                                      *)
(***************************************************************************)
\* variant: a placeholder answered with a reporter over empty code lines
file_reporter_placeholder(arg) ==
    LET filename == abspath(arg)
        e        == c_files_map[filename]
    IN  IF Lower(splitext(arg)[2]) \notin
              {<<".", "p", "y", "x">>, <<".", "p", "x", "i">>,
               <<".", "p", "x", "d">>}
        THEN RetNone
        ELSE IF DOMAIN c_files_map = {} \/ filename \notin DOMAIN c_files_map
        THEN RetNone
        ELSE IF e.code = None
        THEN Ret("reporter", NoPath,
                 Some(Reporter(e.c_file, filename, e.path, <<>>, {})))
        ELSE Ret("reporter", NoPath,
                 Some(Reporter(e.c_file, filename, e.path,
                               Val(e.code), Val(e.excluded))))

file_reporter(arg) ==
    LET filename == abspath(arg)
        e        == c_files_map[filename]
    IN  IF Lower(splitext(arg)[2]) \notin
              {<<".", "p", "y", "x">>, <<".", "p", "x", "i">>,
               <<".", "p", "x", "d">>}
        THEN RetNone
        ELSE IF DOMAIN c_files_map = {} \/ filename \notin DOMAIN c_files_map
        THEN RetNone
        ELSE IF e.code = None
        THEN RetNone
        ELSE Ret("reporter", NoPath,
                 Some(Reporter(e.c_file, filename, e.path,
                               Val(e.code), Val(e.excluded))))

FileReporter(arg) ==
    /\ last' = Call("file_reporter", arg, None, file_reporter(arg), FALSE,
                    EmptyScan, NoPath, {}, {})
    /\ replaced' = {}
    /\ UNCHANGED <<fs, hash_order, c_files_map, map_created, tracers, thr>>

(***************************************************************************)
(* CythonModuleTracer.dynamic_source_filename (lines 152-163)              *)
(***************************************************************************)
\* variant: the .py branch returns the absolute form of the reported path
dynamic_source_filename_abs(self, source_file) ==
    LET abs_path == abspath(source_file)
    IN  IF self.py_file # NoPath
           /\ EndsWith(Lower(source_file), <<".", "p", "y">>)
        THEN /\ last' = Call("dynamic_source_filename", source_file,
                             Some(self), Ret("path", abs_path, None),
                             FALSE, EmptyScan, NoPath, {}, {})
             /\ UNCHANGED c_files_map
        ELSE /\ c_files_map' =
                    IF abs_path \notin DOMAIN c_files_map
                    THEN DictSet(c_files_map, abs_path,
                                 Entry(self.c_file, source_file, None, None))
                    ELSE c_files_map
             /\ last' = Call("dynamic_source_filename", source_file,
                             Some(self), Ret("path", abs_path, None),
                             FALSE, EmptyScan, NoPath, {}, {})

\* variant: the placeholder stored without the membership test of line 160
dynamic_source_filename_always(self, source_file) ==
    LET abs_path == abspath(source_file)
    IN  IF self.py_file # NoPath
           /\ EndsWith(Lower(source_file), <<".", "p", "y">>)
        THEN /\ last' = Call("dynamic_source_filename", source_file,
                             Some(self), Ret("path", self.py_file, None),
                             FALSE, EmptyScan, NoPath, {}, {})
             /\ UNCHANGED c_files_map
        ELSE /\ c_files_map' =
                    DictSet(c_files_map, abs_path,
                            Entry(self.c_file, source_file, None, None))
             /\ last' = Call("dynamic_source_filename", source_file,
                             Some(self), Ret("path", abs_path, None),
                             FALSE, EmptyScan, NoPath, {}, {})

\* variant: the placeholder stored under the reported path as it came
dynamic_source_filename_rawkey(self, source_file) ==
    LET abs_path == abspath(source_file)
    IN  IF self.py_file # NoPath
           /\ EndsWith(Lower(source_file), <<".", "p", "y">>)
        THEN /\ last' = Call("dynamic_source_filename", source_file,
                             Some(self), Ret("path", self.py_file, None),
                             FALSE, EmptyScan, NoPath, {}, {})
             /\ UNCHANGED c_files_map
        ELSE /\ c_files_map' =
                    IF abs_path \notin DOMAIN c_files_map
                    THEN DictSet(c_files_map, source_file,
                                 Entry(self.c_file, source_file, None, None))
                    ELSE c_files_map
             /\ last' = Call("dynamic_source_filename", source_file,
                             Some(self), Ret("path", abs_path, None),
                             FALSE, EmptyScan, NoPath, {}, {})

dynamic_source_filename(self, source_file) ==
    LET abs_path == abspath(source_file)
    IN  IF self.py_file # NoPath
           /\ EndsWith(Lower(source_file), <<".", "p", "y">>)
        THEN /\ last' = Call("dynamic_source_filename", source_file,
                             Some(self), Ret("path", self.py_file, None),
                             FALSE, EmptyScan, NoPath, {}, {})
             /\ UNCHANGED c_files_map
        ELSE /\ c_files_map' =
                    IF abs_path \notin DOMAIN c_files_map
                    THEN DictSet(c_files_map, abs_path,
                                 Entry(self.c_file, source_file, None, None))
                    ELSE c_files_map
             /\ last' = Call("dynamic_source_filename", source_file,
                             Some(self), Ret("path", abs_path, None),
                             FALSE, EmptyScan, NoPath, {}, {})

DynamicSourceFilename(self, source_file) ==
    /\ self \in tracers
    /\ dynamic_source_filename(self, source_file)
    /\ replaced' = {}
    /\ UNCHANGED <<fs, hash_order, map_created, tracers, thr>>

(***************************************************************************)
(* Specifications                                                          *)
(***************************************************************************)
\* paths coverage.py asks a tracer for
TracerPaths == {p_m_SO_rel, p_n_c, p_x_txt, p_a_pyx}

\* paths coverage.py asks a reporter for
ReporterPaths == {p_a_pyx, p_a_PYX, p_x_txt}

\* co_filename of the frames the tracers see
FramePaths == {p_a_pyx, p_x_txt, p_m_py, p_k_py}

TracerObjects ==
    {Tracer(NoPath, py, c) : py \in {NoPath, p_m_py}, c \in {p_m_c, p_m_cpp, p_n_c}}

Next ==
    \/ \E arg \in TracerPaths : FileTracer(arg)
    \/ \E arg \in ReporterPaths : FileReporter(arg)
    \/ \E self \in TracerObjects, source_file \in FramePaths :
          DynamicSourceFilename(self, source_file)

Spec == Init /\ [][Next]_vars

\* the scanner on every C file of at most MaxLines annotation lines
ScanInit ==
    /\ \E t \in Texts(MaxLines) \cup LongTexts :
          fs = [q \in {p_m_c, p_m_cpp, p_m_py, p_n_c} |->
                   IF q = p_m_c THEN File(TRUE, TRUE, <<Banner>> \o t)
                   ELSE Missing]
    /\ hash_order \in HashOrders
    /\ InitProcess

ScanNext == FileTracer(p_m_SO_rel)

ScanSpec == ScanInit /\ [][ScanNext]_vars

(***************************************************************************)
(* Two threads in the plugin at once.  The file holds no lock, so a thread *)
(* may be switched out between any two statements that touch the registry: *)
(* between the membership test and the insert of dynamic_source_filename   *)
(* (lines 160-161) and between two writes of the commit loop of            *)
(* _parse_lines (lines 129-131).                                           *)
(***************************************************************************)
\* lines 152-160: up to and including the membership test
DsfCheck(t, self, source_file) ==
    /\ thr[t].pc = "idle"
    /\ self \in tracers
    /\ thr' = [thr EXCEPT ![t] =
                 IF \/ /\ self.py_file # NoPath
                       /\ EndsWith(Lower(source_file), <<".", "p", "y">>)
                    \/ abspath(source_file) \in DOMAIN c_files_map
                 THEN Idle
                 ELSE [Idle EXCEPT !.pc = "insert", !.self = Some(self),
                                   !.arg = source_file]]
    /\ UNCHANGED <<fs, hash_order, c_files_map, map_created, tracers, last,
                   replaced>>

\* lines 161-163: the insert the test decided on, and the return
DsfInsert(t) ==
    /\ thr[t].pc = "insert"
    /\ c_files_map' =
          DictSet(c_files_map, abspath(thr[t].arg),
                  Entry(Val(thr[t].self).c_file, thr[t].arg, None, None))
    /\ thr' = [thr EXCEPT ![t] = Idle]
    /\ UNCHANGED <<fs, hash_order, map_created, tracers, last, replaced>>

\* file_tracer up to the commit loop: lines 27-46 and 89-127
ParseStart(t, arg) ==
    LET filename == abspath(arg)
        known    == KnownCFile(filename)
        found    == IF known = NoPath THEN find_source_files(filename)
                    ELSE [c_file |-> known, py_file |-> NoPath, probes |-> {}]
    IN  /\ thr[t].pc = "idle"
        /\ IF found.c_file = NoPath \/ ~IsCythonFile(found.c_file)
           THEN UNCHANGED <<thr, map_created>>
           ELSE /\ thr' = [thr EXCEPT ![t] =
                            [Idle EXCEPT !.pc = "commit", !.arg = filename,
                                         !.c_file = found.c_file,
                                         !.py_file = found.py_file,
                                         !.scan = Scan(fs[found.c_file].lines),
                                         !.i = 1]]
                /\ map_created' = TRUE
        /\ UNCHANGED <<fs, hash_order, c_files_map, tracers, last, replaced>>

\* lines 129-131: one turn of the commit loop
CommitStep(t) ==
    LET order == SetIter(thr[t].scan.filenames)
        done  == CommitFrom(c_files_map, <<order[thr[t].i]>>, 1,
                            thr[t].c_file, thr[t].scan)
    IN  /\ thr[t].pc = "commit"
        /\ thr[t].i <= Len(order)
        /\ c_files_map' = done.map
        /\ thr' = [thr EXCEPT ![t] =
                     IF done.raised THEN Idle ELSE [@ EXCEPT !.i = @ + 1]]
        /\ UNCHANGED <<fs, hash_order, map_created, tracers, last, replaced>>

\* lines 133-135 and 55: the loop is over, the tracer is returned
ParseReturn(t) ==
    /\ thr[t].pc = "commit"
    /\ thr[t].i > Len(SetIter(thr[t].scan.filenames))
    /\ tracers' = tracers \cup
                    {Tracer(thr[t].arg, thr[t].py_file, thr[t].c_file)}
    /\ thr' = [thr EXCEPT ![t] = Idle]
    /\ UNCHANGED <<fs, hash_order, c_files_map, map_created, last, replaced>>

\* module m built as C or as C++, and module n
ThreadInit ==
    /\ \E mc \in {Missing, File(TRUE, TRUE, <<Banner, H_a1, C_x, H_b12, E_end>>)} :
          fs = [q \in {p_m_c, p_m_cpp, p_m_py, p_n_c} |->
                   CASE q = p_m_c -> mc
                     [] q = p_m_cpp -> File(TRUE, TRUE, <<Banner, H_b12, C_x>>)
                     [] q = p_m_py -> Missing
                     [] q = p_n_c -> File(TRUE, TRUE, <<Banner, H_abs_a2, C_y>>)]
    /\ hash_order \in HashOrders
    /\ InitProcess

ThreadNext ==
    \E t \in Threads :
        \/ \E arg \in TracerPaths : ParseStart(t, arg)
        \/ CommitStep(t)
        \/ ParseReturn(t)
        \/ \E self \in TracerObjects, source_file \in FramePaths :
              DsfCheck(t, self, source_file)
        \/ DsfInsert(t)

ThreadSpec == ThreadInit /\ [][ThreadNext]_vars

(***************************************************************************)
(* The annotation format, stated on line positions                         *)
(***************************************************************************)
\* the C file the last call scanned
ScannedLines == fs[last.c_file].lines

\* the lines the C files of the model are made of, and what the three
\* expressions of lines 95-97 give on each of them
KnownLines ==
    Vocabulary \cup {Banner, LateBanner, PlainLine, H_abs_a2}

HeaderMatches == [l \in KnownLines |-> match_source_path_line(l)]
CodeMatches == [l \in KnownLines |-> match_current_code_line(l)]
EndMatches == [l \in KnownLines |-> match_comment_end(l)]

HeaderMatch(l) ==
    IF l \in KnownLines THEN HeaderMatches[l] ELSE match_source_path_line(l)
CodeMatch(l) ==
    IF l \in KnownLines THEN CodeMatches[l] ELSE match_current_code_line(l)
EndMatch(l) ==
    IF l \in KnownLines THEN EndMatches[l] ELSE match_comment_end(l)

IsHeaderLine(lines, i) == HeaderMatch(lines[i]).ok
HeaderFile(lines, i) == HeaderMatch(lines[i]).filename
HeaderLineNo(lines, i) == ToInt(HeaderMatch(lines[i]).lineno)
IsCodeLine(lines, j) == CodeMatch(lines[j]).ok
IsBlockEnd(lines, j) == IsCodeLine(lines, j) \/ EndMatch(lines[j])

\* the line that ends the annotation block opened at line i: the first
\* code-text or comment-end line after it (Len + 1 if the input ends first)
BlockEnd(lines, i) ==
    LET ends == {j \in (i + 1)..Len(lines) : IsBlockEnd(lines, j)}
    IN  IF ends = {} THEN Len(lines) + 1
        ELSE CHOOSE j \in ends : \A k \in ends : j <= k

RECURSIVE IsPathHeader(_, _)
\* line i is a path header of the file: it has the header shape and lies in
\* no annotation block opened by an earlier path header
IsPathHeader(lines, i) ==
    /\ IsHeaderLine(lines, i)
    /\ \A h \in 1..(i - 1) :
          \/ ~IsHeaderLine(lines, h)
          \/ BlockEnd(lines, h) < i
          \/ ~IsPathHeader(lines, h)

PathHeaders(lines) == {i \in 1..Len(lines) : IsPathHeader(lines, i)}

\* the block of path header i captures a code-text line
Captures(lines, i) ==
    BlockEnd(lines, i) <= Len(lines) /\ IsCodeLine(lines, BlockEnd(lines, i))

\* the code text of that line: before the marker, trailing blanks removed
CapturedText(lines, i) ==
    RStrip(CodeMatch(lines[BlockEnd(lines, i)]).text)

\* path headers citing (F, n)
HeadersOf(lines, F, n) ==
    {i \in PathHeaders(lines) :
        HeaderFile(lines, i) = F /\ HeaderLineNo(lines, i) = n}

FilesCited(lines) == {HeaderFile(lines, i) : i \in PathHeaders(lines)}

LinesCited(lines, F) ==
    {HeaderLineNo(lines, i) :
        i \in {h \in PathHeaders(lines) : HeaderFile(lines, h) = F}}

SetMax(S) == CHOOSE x \in S : \A y \in S : y <= x

\* maxLine(F): the largest line number cited for F by a path header
MaxLineCited(lines, F) == SetMax(LinesCited(lines, F))

\* the reporter coverage.py gets for a full registry entry under key k
ReporterOf(k) ==
    Reporter(c_files_map[k].c_file, k, c_files_map[k].path,
             Val(c_files_map[k].code), Val(c_files_map[k].excluded))

FullKeys == {k \in DOMAIN c_files_map : IsFull(c_files_map[k])}

(***************************************************************************)
(* C1..C10                                                                 *)
(***************************************************************************)
\* C1: for every file F with a full registry entry, statements(F) and
\* excluded_statements(F) are disjoint and their union is exactly
\* 1..maxLine(F), maxLine(F) being the largest line number a path header of
\* the C file cites for F (any number [0-9]+ accepts, 0 included).
C1_StatementsPartitionRange ==
    \A k \in FullKeys :
        LET r     == ReporterOf(k)
            lines == fs[c_files_map[k].c_file].lines
        IN  /\ statements(r) \cap excluded_statements(r) = {}
            /\ statements(r) \cup excluded_statements(r)
                 = 1..MaxLineCited(lines, c_files_map[k].path)

\* C2: once a registry key holds a full entry, no later call changes the
\* tuple stored under it.
C2_FullEntryNeverOverwritten ==
    [][\A k \in FullKeys :
          k \in DOMAIN c_files_map' /\ c_files_map'[k] = c_files_map[k]]_vars

\* C3: after a scan, a file cited by a path header none of whose blocks
\* captured a code line has a registry record with empty codeLines and
\* excludedLines = 1..maxLine.
C3_FileWithoutCodeHasRecord ==
    (last.op = "file_tracer" /\ last.scanned) =>
        \A F \in FilesCited(ScannedLines) :
            (\A i \in PathHeaders(ScannedLines) :
                HeaderFile(ScannedLines, i) = F => ~Captures(ScannedLines, i))
            => /\ abspath(F) \in DOMAIN c_files_map
               /\ c_files_map[abspath(F)].code = Some(<<>>)
               /\ c_files_map[abspath(F)].excluded
                    = Some(1..MaxLineCited(ScannedLines, F))

\* C4: a file_tracer call that directly follows a file_tracer call on the
\* same path leaves the registry (keys and entries) as the first call left it.
C4_SecondResolutionChangesNothing ==
    [][last'.again => c_files_map' = c_files_map]_vars

C4_Witness ==
    /\ last.again /\ last.scanned
    /\ \E k \in FullKeys : c_files_map[k].c_file = last.c_file

\* the first 30 bytes of the file hold the generator marker
MarkerInFirst30(p) ==
    \E i \in 0..(30 - Len(Marker)) :
        /\ i + Len(Marker) <= Len(Concat(fs[p].lines))
        /\ \A j \in 1..Len(Marker) : Concat(fs[p].lines)[i + j] = Marker[j]

\* C5: when the candidate C file cannot be opened or lacks the marker in its
\* first 30 bytes, file_tracer returns None, runs no scan and leaves the
\* registry and the tracers as they were.
C5_NoMarkerNoMapping ==
    [][(/\ last'.op = "file_tracer" /\ last'.c_file # NoPath
        /\ (~fs[last'.c_file].readable \/ ~MarkerInFirst30(last'.c_file)))
       => /\ last'.ret.kind = "None" /\ ~last'.scanned
          /\ c_files_map' = c_files_map /\ tracers' = tracers]_vars

C5_Witness ==
    /\ last.op = "file_tracer" /\ last.c_file = p_m_c
    /\ fs[p_m_c].readable /\ ~MarkerInFirst30(p_m_c)
    /\ Contains(Concat(fs[p_m_c].lines), Marker)
    /\ last.ret.kind = "None" /\ FullKeys # {}

ReporterExtensions ==
    {<<".", "p", "y", "x">>, <<".", "p", "x", "i">>, <<".", "p", "x", "d">>}

\* C6: file_reporter returns a reporter exactly when the extension is
\* .pyx/.pxi/.pxd (in any case) and the registry holds a full entry for the
\* absolute path; the reporter then carries that entry's code lines; for an
\* absent key or a placeholder it returns None.
C6_ReporterOnlyForFullEntry ==
    last.op = "file_reporter" =>
        LET k == abspath(last.arg)
        IN  /\ (last.ret.kind = "reporter") <=>
                  (/\ Lower(splitext(last.arg)[2]) \in ReporterExtensions
                   /\ k \in FullKeys)
            /\ last.ret.kind # "reporter" => last.ret = RetNone
            /\ last.ret.kind = "reporter" => last.ret.obj = {ReporterOf(k)}

C6_Witness ==
    /\ last.op = "file_reporter" /\ last.arg = p_a_pyx
    /\ abspath(p_a_pyx) \in DOMAIN c_files_map \ FullKeys
    /\ last.ret = RetNone

C8_LastWriteWinsAndMaxLine ==
    (last.op = "file_tracer" /\ last.scanned) =>
        /\ \A i, j \in PathHeaders(ScannedLines) :
              (/\ i < j
               /\ HeaderFile(ScannedLines, i) = HeaderFile(ScannedLines, j)
               /\ HeaderLineNo(ScannedLines, i) = HeaderLineNo(ScannedLines, j)
               /\ Captures(ScannedLines, i) /\ Captures(ScannedLines, j)
               /\ \A h \in HeadersOf(ScannedLines, HeaderFile(ScannedLines, j),
                                     HeaderLineNo(ScannedLines, j)) :
                     Captures(ScannedLines, h) => h <= j)
              => last.scan.code_lines[HeaderFile(ScannedLines, j)]
                                     [HeaderLineNo(ScannedLines, j)]
                   = CapturedText(ScannedLines, j)
        /\ DOMAIN last.scan.max_line = FilesCited(ScannedLines)
        /\ \A F \in FilesCited(ScannedLines) :
              last.scan.max_line[F] = MaxLineCited(ScannedLines, F)

C8_Witness ==
    /\ last.op = "file_tracer" /\ last.scanned
    /\ ScannedLines = <<Banner, H_a3, C_x, H_b12, C_y, H_a1, E_end, H_a3, C_y>>
    /\ last.scan.code_lines[p_a_pyx][3] = t_y
    /\ last.scan.max_line[p_a_pyx] = 3

ArtifactExtensions ==
    {<<".", "s", "o">>, <<".", "d", "l", "l">>, <<".", "c">>,
     <<".", "c", "p", "p">>}

\* C9 as stated: for a path whose extension is not .so/.dll/.c/.cpp, in any
\* registry state, file_tracer probes nothing, reads no C file, returns
\* None and leaves the registry unchanged.
C9_UnknownExtensionAnyRegistry ==
    [][(/\ last'.op = "file_tracer"
        /\ Lower(splitext(abspath(last'.arg))[2]) \notin ArtifactExtensions)
       => /\ last'.probes = {} /\ last'.reads = {} /\ ~last'.scanned
          /\ last'.ret = RetNone
          /\ c_files_map' = c_files_map]_vars

\* C9 amended: for such a path file_tracer never probes the file system;
\* when moreover the absolute path is not a registry key, it reads no C
\* file, returns None and leaves the registry unchanged.
C9_UnknownExtensionNotRegistered ==
    [][(/\ last'.op = "file_tracer"
        /\ Lower(splitext(abspath(last'.arg))[2]) \notin ArtifactExtensions)
       => /\ last'.probes = {}
          /\ abspath(last'.arg) \notin DOMAIN c_files_map
             => /\ last'.reads = {} /\ ~last'.scanned
                /\ last'.ret = RetNone
                /\ c_files_map' = c_files_map]_vars

C9_Witness ==
    /\ last.op = "file_tracer" /\ last.arg = p_x_txt
    /\ abspath(p_x_txt) \notin DOMAIN c_files_map
    /\ FullKeys # {} /\ exists(p_m_c)
    /\ last.ret = RetNone /\ last.probes = {}

\* C10 as stated: when the frame's path ends in .py and the tracer has a
\* derived source file, dynamic_source_filename returns the reported path
\* unchanged and does not modify the registry.
C10_ReturnsReportedPath ==
    [][(/\ last'.op = "dynamic_source_filename"
        /\ EndsWith(last'.arg, <<".", "p", "y">>)
        /\ \E self \in last'.self : self.py_file # NoPath)
       => /\ last'.ret = Ret("path", last'.arg, None)
          /\ c_files_map' = c_files_map]_vars

\* C10 amended: in that case dynamic_source_filename returns the tracer's
\* derived source file (py_file), whatever .py path the frame reported, and
\* does not modify the registry.
C10_ReturnsDerivedSourceFile ==
    [][(/\ last'.op = "dynamic_source_filename"
        /\ EndsWith(last'.arg, <<".", "p", "y">>)
        /\ \E self \in last'.self : self.py_file # NoPath)
       => /\ \A self \in last'.self :
                last'.ret = Ret("path", self.py_file, None)
          /\ c_files_map' = c_files_map]_vars

C10_Witness ==
    /\ last.op = "dynamic_source_filename" /\ last.arg = p_k_py
    /\ last.self = {Tracer(NoPath, p_m_py, p_m_c)}
    /\ last.ret = Ret("path", p_m_py, None)
    /\ abspath(p_k_py) \notin DOMAIN c_files_map

(***************************************************************************)
(* C11..C20                                                                *)
(***************************************************************************)
\* path headers whose block meets the end of the input before a code-text
\* or comment-end line
Unresolved(lines) == {i \in PathHeaders(lines) : BlockEnd(lines, i) > Len(lines)}

\* C11: on any sequence of lines, truncated ones included, _parse_lines
\* finishes normally at the end of the input, records no code line for a
\* header left unresolved, and commits a record for every file seen.
C11_ScanNeverRaises ==
    (last.op = "file_tracer" /\ last.scanned) =>
        /\ last.ret.kind = "tracer"
        /\ \A i \in Unresolved(ScannedLines) :
              \/ HeaderFile(ScannedLines, i) \notin DOMAIN last.scan.code_lines
              \/ HeaderLineNo(ScannedLines, i) \notin
                    DOMAIN last.scan.code_lines[HeaderFile(ScannedLines, i)]
              \/ \E h \in HeadersOf(ScannedLines, HeaderFile(ScannedLines, i),
                                    HeaderLineNo(ScannedLines, i)) :
                    Captures(ScannedLines, h)
        /\ \A F \in FilesCited(ScannedLines) :
              /\ abspath(F) \in FullKeys
              /\ c_files_map[abspath(F)].c_file = last.c_file

\* the files a C file cites, by registry key
KeysCited(p) == {abspath(F) : F \in FilesCited(fs[p].lines)}

Placeholders == DOMAIN c_files_map \ FullKeys

\* C12 as stated: a placeholder inserted for path P on behalf of C file A
\* is a full entry after the next parse of A that completes.
C12_NextParseOfArtifactReplaces ==
    [][(/\ last'.op = "file_tracer" /\ last'.scanned
        /\ last'.ret.kind = "tracer")
       => \A P \in Placeholders :
             c_files_map[P].c_file = last'.c_file
             => IsFull(c_files_map'[P])]_vars

\* C12 amended: a placeholder for path P is a full entry after the next
\* parse that completes of a C file citing P (a path header whose path has
\* the absolute form P); a completed parse of a C file that does not cite P,
\* the C file the placeholder names included, leaves the placeholder as it is.
C12_ParseCitingPathReplaces ==
    [][(/\ last'.op = "file_tracer" /\ last'.scanned
        /\ last'.ret.kind = "tracer")
       => \A P \in Placeholders :
             /\ P \in KeysCited(last'.c_file) => IsFull(c_files_map'[P])
             /\ P \notin KeysCited(last'.c_file)
                => c_files_map'[P] = c_files_map[P]
             /\ c_files_map[P].c_file = last'.c_file
                => P \notin KeysCited(last'.c_file)]_vars

C12_Witness ==
    /\ last.op = "file_tracer" /\ last.ret.kind = "tracer"
    /\ last.c_file = p_n_c
    /\ replaced = {p_a_pyx_abs}
    /\ c_files_map[p_a_pyx_abs].c_file = p_n_c

\* C13: with two threads in the plugin, the membership test and the insert
\* of dynamic_source_filename and the writes of the commit loop being
\* separate steps, no step replaces a full entry by a placeholder (a
\* placeholder insert never lands on a full entry committed since its
\* membership test), so a key a thread committed a full entry for holds a
\* full entry when both threads have finished.
C13_NoInsertOverFullEntry ==
    [][\A k \in FullKeys : k \in DOMAIN c_files_map' /\ IsFull(c_files_map'[k])]_vars

\* the source-file branch of dynamic_source_filename applies to a call
SourceFileBranch(call) ==
    /\ Val(call.self).py_file # NoPath
    /\ EndsWith(Lower(call.arg), <<".", "p", "y">>)

RegistryBranchCall(call) ==
    call.op = "dynamic_source_filename" /\ ~SourceFileBranch(call)

\* C14: in its registry branch dynamic_source_filename returns the absolute
\* form of the reported path and leaves an entry under that key; it stores
\* the placeholder (C file of the tracer, reported path, None, None) only
\* when the key was absent and otherwise changes no entry, the one under the
\* key and every other; the same call made again changes nothing.
C14_RegistryBranchInsertsOnce ==
    [][RegistryBranchCall(last') =>
         LET key == abspath(last'.arg)
         IN  /\ last'.ret = Ret("path", key, None)
             /\ key \in DOMAIN c_files_map'
             /\ key \notin DOMAIN c_files_map
                => c_files_map' =
                     DictSet(c_files_map, key,
                             Entry(Val(last'.self).c_file, last'.arg,
                                   None, None))
             /\ key \in DOMAIN c_files_map => c_files_map' = c_files_map
             /\ (last.op = last'.op /\ last.arg = last'.arg
                 /\ last.self = last'.self)
                => c_files_map' = c_files_map]_vars

C14_Witness ==
    /\ RegistryBranchCall(last)
    /\ last.arg = p_k_py
    /\ last.ret.path = abspath(p_k_py)
    /\ c_files_map[abspath(p_k_py)] =
          Entry(Val(last.self).c_file, p_k_py, None, None)
    /\ p_a_pyx_abs \in FullKeys

\* the names under which the C file of the last call cites the file of key k
NamesCited(k) == {F \in FilesCited(ScannedLines) : abspath(F) = k}

EndedByComment(lines) ==
    {i \in PathHeaders(lines) :
        BlockEnd(lines, i) <= Len(lines) /\ ~IsCodeLine(lines, BlockEnd(lines, i))}

\* C17: a path header (F, n) whose block reaches a comment-end line before a
\* code-text line records no code line for (F, n) but raises maxLine(F) to
\* n at least, so n is in the excluded statements of F unless another block
\* captures code for (F, n); the outer scan takes up again at the line after
\* the comment-end line.
C17_CommentEndedBlockExcluded ==
    (last.op = "file_tracer" /\ last.scanned) =>
        \A i \in EndedByComment(ScannedLines) :
            LET F    == HeaderFile(ScannedLines, i)
                n    == HeaderLineNo(ScannedLines, i)
                next == BlockEnd(ScannedLines, i) + 1
            IN  /\ last.scan.max_line[F] >= n
                /\ (\A h \in HeadersOf(ScannedLines, F, n) :
                       ~Captures(ScannedLines, h))
                   => /\ n \notin DOMAIN DictGet(last.scan.code_lines, F, <<>>)
                      /\ abspath(F) \in FullKeys
                      /\ n \in excluded_statements(ReporterOf(abspath(F)))
                /\ (next <= Len(ScannedLines) /\ IsHeaderLine(ScannedLines, next))
                   => HeaderFile(ScannedLines, next) \in last.scan.filenames

\* a file of that name is on the disk
OnDisk(p) == p \in DOMAIN fs /\ fs[p].exists

\* C18: for a path with one of the extensions .so, .dll, .c, .cpp in any
\* letter case, _find_source_files gives <stem>.c if it exists, else
\* <stem>.cpp if it exists, else no C file; it gives <stem>.py only when a
\* C file was found and <stem>.py exists; it writes neither to the file
\* system nor to the registry.
C18_DiscoveryOrder ==
    [][(/\ last'.op = "file_tracer"
        /\ abspath(last'.arg) \notin DOMAIN c_files_map
        /\ Lower(splitext(abspath(last'.arg))[2]) \in ArtifactExtensions)
       => LET stem    == splitext(abspath(last'.arg))[1]
              dot_c   == stem \o <<".", "c">>
              dot_cpp == stem \o <<".", "c", "p", "p">>
              dot_py  == stem \o <<".", "p", "y">>
          IN  /\ last'.c_file = IF OnDisk(dot_c) THEN dot_c
                                ELSE IF OnDisk(dot_cpp) THEN dot_cpp
                                ELSE NoPath
              /\ last'.ret.kind = "tracer"
                 => Val(last'.ret.obj).py_file =
                       IF OnDisk(dot_py) THEN dot_py ELSE NoPath
              /\ last'.c_file = NoPath
                 => /\ last'.ret = RetNone
                    /\ dot_py \notin last'.probes
              /\ fs' = fs
              /\ ~last'.scanned => c_files_map' = c_files_map]_vars

C18_Witness ==
    /\ last.op = "file_tracer" /\ last.arg = p_m_SO_rel
    /\ ~OnDisk(p_m_c) /\ OnDisk(p_m_cpp) /\ OnDisk(p_m_py)
    /\ last.c_file = p_m_cpp
    /\ last.ret.kind = "tracer"
    /\ Val(last.ret.obj).py_file = p_m_py

\* line j lies in the annotation block opened by a path header
InBlock(lines, j) ==
    \E h \in PathHeaders(lines) : h < j /\ j <= BlockEnd(lines, h)

\* the (file, line) pairs for which a path header's block captures code
CapturedPairs(lines) ==
    {<<HeaderFile(lines, h), HeaderLineNo(lines, h)>> :
        h \in {i \in PathHeaders(lines) : Captures(lines, i)}}

\* C19: the inner loop takes every line of a block without testing it for
\* a path header: a header-shaped line inside a block adds no file to the
\* files seen and raises no maxLine, and the code-text line that ends the
\* block goes to the (file, line) of the header that opened it; every line
\* is taken by exactly one of the two loops, in one pass from first to last.
C19_InnerScanSwallowsHeaders ==
    (last.op = "file_tracer" /\ last.scanned) =>
        LET L == ScannedLines
            T == last.scan.taken
        IN  /\ Len(T) = Len(L)
            /\ \A j \in 1..Len(L) :
                  T[j] = <<IF InBlock(L, j) THEN "inner" ELSE "outer", j>>
            /\ last.scan.filenames = FilesCited(L)
            /\ DOMAIN last.scan.max_line = FilesCited(L)
            /\ \A F \in FilesCited(L) :
                  last.scan.max_line[F] = MaxLineCited(L, F)
            /\ UNION {{<<F, n>> : n \in DOMAIN last.scan.code_lines[F]} :
                         F \in DOMAIN last.scan.code_lines}
               = CapturedPairs(L)

C19_Witness ==
    /\ last.op = "file_tracer" /\ last.scanned
    /\ ScannedLines = <<Banner, H_a1, H_b12, C_x>>
    /\ last.scan.filenames = {p_a_pyx}
    /\ last.scan.max_line = (p_a_pyx :> 1)
    /\ last.scan.code_lines = (p_a_pyx :> (1 :> t_x))
    /\ last.scan.taken[3] = <<"inner", 3>>

\* C20: in a sequence of calls made one after the other, a key is never
\* removed from the registry and a full entry never becomes a placeholder
\* (a key goes absent, placeholder, full, or absent, full), and every key is
\* the absolute form of the path its entry stores.
C20_KeyStatusMonotonic ==
    [][/\ \A k \in DOMAIN c_files_map :
             /\ k \in DOMAIN c_files_map'
             /\ IsFull(c_files_map[k]) => IsFull(c_files_map'[k])
       /\ \A k \in DOMAIN c_files_map' :
             k = abspath(c_files_map'[k].path)]_vars

C20_Witness ==
    /\ replaced = {p_a_pyx_abs}
    /\ c_files_map[p_a_pyx_abs].path = p_a_pyx_abs
    /\ abspath(p_b_pxi) \in FullKeys
    /\ c_files_map[abspath(p_b_pxi)].path = p_b_pxi
    /\ abspath(p_k_py) \in Placeholders
    /\ c_files_map[abspath(p_k_py)].path = p_k_py

====
